---- MODULE Spec2Model ----
(***************************************************************************)
(* The job lifecycle manager of taipy (src/taipy/job/job_manager.py).      *)
(*                                                                         *)
(* JobManager is a stateless facade over a JobRepository.  The state of    *)
(* the system is the repository content, the job objects the callers hold  *)
(* in memory, and the number of jobs created so far.  `last` records the   *)
(* operation that was executed last: its arguments, the exception it       *)
(* raised (or "ok"), the value it returned, the repository calls it made,  *)
(* the log entries it emitted and the callbacks that ran during it.        *)
(*                                                                         *)
(* Job, Status and JobRepository are imported by job_manager.py from      *)
(* other modules of the package; they are modelled from the specification *)
(* (sections 3, 4.2 and 6).                                                *)
(***************************************************************************)
EXTENDS Integers, Sequences, FiniteSets, TLC

VARIABLES repository, held, given, saved, created, changes, last

vars == <<repository, held, given, saved, created, changes, last>>

(* ------------------------------ bounds -------------------------------- *)

\* Number of jobs that create may allocate.
MaxJobs == 2

\* Number of status changes the execution engine may make.
MaxChanges == 3

(* ----------------------------- universes ------------------------------ *)

Tasks == {"t1", "t2"}

JobIds == 1..MaxJobs

\* The callers, each with one variable that refers to a job object.
Callers == {"a", "b"}

\* The caller of the sequential specification.
Sequential == {"a"}

\* The callback lists handed to create.
CallbackLists == {<<>>, <<"c1", "c2">>}

(* -------------------------- Job (spec 3, 4.2) ------------------------- *)

Status == {"SUBMITTED", "BLOCKED", "PENDING", "RUNNING", "COMPLETED", "FAILED", "CANCELED"}

\* The lifecycle graph of section 4.2.
NextStatus(s) ==
    CASE s = "SUBMITTED" -> {"BLOCKED", "PENDING"}
      [] s = "BLOCKED"   -> {"PENDING"}
      [] s = "PENDING"   -> {"RUNNING"}
      [] s = "RUNNING"   -> {"COMPLETED", "FAILED", "CANCELED"}
      [] OTHER           -> {}

\* Job(id, task): a new job object, SUBMITTED, stamped with its creation
\* order, without subscribers.
Job(id, task, stamp) ==
    [id |-> id, task |-> task, status |-> "SUBMITTED",
     creation_date |-> stamp, subscribers |-> <<>>]

is_finished(job) == job.status \in {"COMPLETED", "FAILED", "CANCELED"}

\* job.on_status_change(*callbacks): appends the callbacks in the order given.
on_status_change(job, callbacks) ==
    [job EXCEPT !.subscribers = @ \o callbacks]

\* task in job
job_contains(job, task) == job.task = task

\* job > other, the ordering by creation order
job_gt(job, other) == job.creation_date > other.creation_date

(* --------------------- JobRepository (spec 6) ------------------------- *)

\* What the repository stores of a job: the persisted fields.
to_model(job) ==
    [id |-> job.id, task |-> job.task, status |-> job.status,
     creation_date |-> job.creation_date]

\* The job object the repository builds from a stored record.
from_model(m) ==
    [id |-> m.id, task |-> m.task, status |-> m.status,
     creation_date |-> m.creation_date, subscribers |-> <<>>]

repository_has(repo, job_id) == \E m \in repo : m.id = job_id

\* save: upsert by identity.
repository_save(repo, job) ==
    {m \in repo : m.id # job.id} \cup {to_model(job)}

\* load: the job stored under job_id (ModelNotFound when there is none).
repository_load(repo, job_id) ==
    from_model(CHOOSE m \in repo : m.id = job_id)

repository_delete(repo, job_id) == {m \in repo : m.id # job_id}

\* How delete may end: removing a record that is not there succeeds or fails,
\* as the repository chooses.
repository_delete_outcomes(repo, job_id) ==
    IF repository_has(repo, job_id) THEN {"ok"} ELSE {"ok", "ModelNotFound"}

repository_delete_all(repo) == {}

\* The orders in which load_all may return the records of repo.
Orderings(S) ==
    {o \in [1..Cardinality(S) -> S] : \A i, j \in 1..Cardinality(S) : i # j => o[i] # o[j]}

repository_load_all(order) == [i \in DOMAIN order |-> from_model(order[i])]

(* ------------------------------ state --------------------------------- *)

\* repository : the records the JobRepository holds
\* held       : per caller variable, <<>> or <<the job object it refers to>>
\* given      : per caller variable, <<callbacks>> when its object was
\*              returned by create(task, callbacks), <<>> otherwise
\* saved      : per identity, <<the record saved last and not removed since>>
\* created    : the number of jobs created so far
\* changes    : the number of status changes made so far
\* last       : the operation executed last
\*   op, id, task, arg, force : the operation and its arguments (arg is
\*                <<the job object passed>>)
\*   given      : <<callbacks>> of the create that returned the job concerned
\*   had        : get, set, delete: the repository held a record of id when
\*                the operation began; delete_all: it held the record of a
\*                job that is not finished
\*   was        : create, get, set, delete: <<the record of id the repository
\*                held when the operation began>>, or <<>>
\*   raised     : what the repository call raised, or "none"
\*   outcome    : "ok" or the exception the operation raised
\*   ret        : the jobs returned
\*   calls      : the repository calls made
\*   log        : the severities of the log entries emitted
\*   fired      : the callbacks that ran, in order

NoOp ==
    [op |-> "init", id |-> 0, task |-> "", arg |-> <<>>, force |-> FALSE,
     given |-> <<>>, had |-> FALSE, was |-> <<>>, raised |-> "none",
     outcome |-> "ok", ret |-> <<>>,
     calls |-> <<>>, log |-> <<>>, fired |-> <<>>]

Init ==
    /\ repository = {}
    /\ held = [s \in Callers |-> <<>>]
    /\ given = [s \in Callers |-> <<>>]
    /\ saved = [i \in JobIds |-> <<>>]
    /\ created = 0
    /\ changes = 0
    /\ last = NoOp

(* ---------------------------- JobManager ------------------------------ *)

\* How a repository call may end besides its own result: "none" is no
\* failure; a failed call leaves the repository as it was.
Reliable == {"none"}

Unreliable == {"none", "StorageError"}

\* The record of job_id in repo, as <<record>>, or <<>>.
record_of(repo, job_id) ==
    IF repository_has(repo, job_id)
    THEN <<CHOOSE m \in repo : m.id = job_id>> ELSE <<>>

\* uuid that issues the identifier of the previous job again.
uuid4_reused == IF created = 0 THEN 1 ELSE created

\* uuid.uuid4(): an identifier that was not issued before.
uuid4 == created + 1

\* set that saves a job only when the repository has no record of it yet.
set_inserts_only(job) ==
    IF repository_has(repository, job.id) THEN repository
    ELSE repository_save(repository, job)

\* set that adds the record without replacing the one of the same identity.
set_adds(job) == repository \cup {to_model(job)}

\* set: the repository after cls.repository.save(job).
set_saves(job) == repository_save(repository, job)

Reverse(s) == [i \in 1..Len(s) |-> s[Len(s) + 1 - i]]

\* create that registers the callbacks last first.
create_registers_reversed(job, callbacks) ==
    on_status_change(job, Reverse(callbacks))

\* create: the job after job.on_status_change(*callbacks).
create_registers(job, callbacks) == on_status_change(job, callbacks)

\* create that registers the callbacks before it saves the job.
create_saves_registered(job, callbacks) == on_status_change(job, callbacks)

\* create: the job as it is when handed to cls.set, before the registration.
create_saves(job, callbacks) == job

\* create(task, callbacks); the caller keeps the returned job in slot.
create(task, callbacks, slot, fault) ==
    /\ created < MaxJobs
    /\ LET job == Job(uuid4, task, created + 1)
           passed == create_saves(job, callbacks)
           returned == create_registers(job, callbacks)
           call == [NoOp EXCEPT !.op = "create", !.id = job.id, !.task = task,
                                !.arg = <<passed>>, !.given = <<callbacks>>,
                                !.was = record_of(repository, job.id),
                                !.calls = <<"save">>]
       IN IF fault = "none"
          THEN /\ repository' = set_saves(passed)
               /\ saved' = [saved EXCEPT ![job.id] = <<to_model(passed)>>]
               /\ held' = [held EXCEPT ![slot] = <<returned>>]
               /\ given' = [given EXCEPT ![slot] = <<callbacks>>]
               /\ last' = [call EXCEPT !.ret = <<returned>>]
          ELSE /\ last' = [call EXCEPT !.raised = fault, !.outcome = fault]
               /\ UNCHANGED <<repository, saved, held, given>>
    /\ created' = created + 1
    /\ UNCHANGED changes

\* set(job), for the job object held in slot.
set(slot, fault) ==
    /\ held[slot] # <<>>
    /\ LET job == held[slot][1]
           call == [NoOp EXCEPT !.op = "set", !.id = job.id, !.arg = <<job>>,
                                !.had = repository_has(repository, job.id),
                                !.was = record_of(repository, job.id),
                                !.calls = <<"save">>]
       IN IF fault = "none"
          THEN /\ repository' = set_saves(job)
               /\ saved' = [saved EXCEPT ![job.id] = <<to_model(job)>>]
               /\ last' = call
          ELSE /\ last' = [call EXCEPT !.raised = fault, !.outcome = fault]
               /\ UNCHANGED <<repository, saved>>
    /\ UNCHANGED <<held, given, created, changes>>

\* get with a bare except.
get_translates_all(raised) == "NonExistingJob"

\* get: except ModelNotFound; what it raises for what load raised.
get_translates(raised) ==
    IF raised = "ModelNotFound" THEN "NonExistingJob" ELSE raised

\* get that swallows ModelNotFound.
get_swallows(job_id) == "ok"

\* get: how the call ends when load does not fail otherwise.
get_outcome(job_id) ==
    IF repository_has(repository, job_id) THEN "ok"
    ELSE get_translates("ModelNotFound")

\* get that logs nothing.
get_logs_nothing(outcome) == <<>>

\* get: logging.error before NonExistingJob is raised.
get_logs(outcome) == IF outcome = "NonExistingJob" THEN <<"error">> ELSE <<>>

\* get(job_id); the caller keeps the returned job in slot.
get(job_id, slot, fault) ==
    LET found == repository_has(repository, job_id)
        raised == IF fault # "none" THEN fault
                  ELSE IF found THEN "none" ELSE "ModelNotFound"
        outcome == IF fault = "none" THEN get_outcome(job_id)
                   ELSE get_translates(fault)
        ret == IF fault = "none" /\ found
               THEN <<repository_load(repository, job_id)>> ELSE <<>>
    IN /\ held' = IF ret # <<>> THEN [held EXCEPT ![slot] = ret] ELSE held
       /\ given' = IF ret # <<>> THEN [given EXCEPT ![slot] = <<>>] ELSE given
       /\ last' = [NoOp EXCEPT !.op = "get", !.id = job_id, !.had = found,
                               !.was = record_of(repository, job_id),
                               !.raised = raised,
                               !.outcome = outcome, !.ret = ret,
                               !.calls = <<"load">>,
                               !.log = get_logs(outcome)]
       /\ UNCHANGED <<repository, saved, created, changes>>

\* get_all that leaves the finished jobs out.
get_all_unfinished(order) ==
    SelectSeq(repository_load_all(order), LAMBDA job : ~is_finished(job))

\* get_all: what it returns when load_all yields the records in `order`.
get_all_returns(order) == repository_load_all(order)

get_all(fault) ==
    /\ IF fault = "none"
       THEN \E order \in Orderings(repository) :
               last' = [NoOp EXCEPT !.op = "get_all",
                                    !.ret = get_all_returns(order),
                                    !.calls = <<"load_all">>]
       ELSE last' = [NoOp EXCEPT !.op = "get_all", !.raised = fault,
                                 !.outcome = fault, !.calls = <<"load_all">>]
    /\ UNCHANGED <<repository, held, given, saved, created, changes>>

\* delete without the gate.
delete_always(job, force) == TRUE

\* delete with the gate `and` instead of `or`.
delete_needs_both(job, force) == is_finished(job) /\ force

\* delete: the gate, job.is_finished() or force.
delete_allowed(job, force) == is_finished(job) \/ force

\* delete that removes every job of the task of job.
delete_removes_task(job) == {m \in repository : m.task # job.task}

\* delete: the repository after cls.repository.delete(job.id).
delete_removes(job) == repository_delete(repository, job.id)

\* delete: logging.warning(err) before err is raised.
delete_logs(allowed) == IF allowed THEN <<>> ELSE <<"warning">>

\* delete(job, force), for the job object held in slot.
delete(slot, force, fault) ==
    /\ held[slot] # <<>>
    /\ LET job == held[slot][1]
           allowed == delete_allowed(job, force)
           call == [NoOp EXCEPT !.op = "delete", !.id = job.id, !.arg = <<job>>,
                                !.had = repository_has(repository, job.id),
                                !.was = record_of(repository, job.id),
                                !.force = force, !.log = delete_logs(allowed)]
       IN IF allowed
          THEN \E outcome \in IF fault = "none"
                              THEN repository_delete_outcomes(repository, job.id)
                              ELSE {fault} :
                 /\ repository' = IF outcome = "ok" THEN delete_removes(job)
                                  ELSE repository
                 /\ saved' = IF outcome = "ok" THEN [saved EXCEPT ![job.id] = <<>>]
                             ELSE saved
                 /\ last' = [call EXCEPT !.outcome = outcome,
                                         !.raised = IF outcome = "ok" THEN "none"
                                                    ELSE outcome,
                                         !.calls = <<"delete">>]
          ELSE /\ last' = [call EXCEPT !.outcome = "JobNotDeletedException"]
               /\ UNCHANGED <<repository, saved>>
    /\ UNCHANGED <<held, given, created, changes>>

\* delete_all that keeps the jobs that are not finished.
delete_all_finished == {m \in repository : ~is_finished(m)}

\* delete_all: the repository after cls.repository.delete_all().
delete_all_leaves == repository_delete_all(repository)

delete_all(fault) ==
    /\ LET call == [NoOp EXCEPT !.op = "delete_all", !.calls = <<"delete_all">>,
                                !.had = \E m \in repository : ~is_finished(m)]
       IN IF fault = "none"
          THEN /\ repository' = delete_all_leaves
               /\ saved' = [i \in JobIds |-> <<>>]
               /\ last' = call
          ELSE /\ last' = [call EXCEPT !.raised = fault, !.outcome = fault]
               /\ UNCHANGED <<repository, saved>>
    /\ UNCHANGED <<held, given, created, changes>>

\* max(iterable): the first element no later element is greater than.
RECURSIVE py_max_from(_, _, _)
py_max_from(jobs, i, best) ==
    IF i > Len(jobs) THEN best
    ELSE py_max_from(jobs, i + 1, IF job_gt(jobs[i], best) THEN jobs[i] ELSE best)

py_max(jobs) == py_max_from(jobs, 2, jobs[1])

\* filter(lambda job: task in job, all)
jobs_of(task, all) == SelectSeq(all, LAMBDA job : job_contains(job, task))

\* get_latest_job without the filter on the task.
latest_of_any(task, all) == py_max(all)

\* get_latest_job: max(filter(...)) over a non-empty selection.
latest_of(task, all) == py_max(jobs_of(task, all))

\* get_latest_job with max(..., default=None).
latest_outcome_default(task, all) == "ok"

\* get_latest_job: max() of an empty selection raises ValueError.
latest_outcome(task, all) ==
    IF jobs_of(task, all) = <<>> THEN "ValueError" ELSE "ok"

\* get_latest_job: how the call ends and what it returns when get_all
\* returns `all`.
latest_result(task, all) ==
    [outcome |-> latest_outcome(task, all),
     ret |-> IF jobs_of(task, all) = <<>> THEN <<>> ELSE <<latest_of(task, all)>>]

\* get_latest_job(task); the caller keeps the returned job in slot.
get_latest_job(task, slot, fault) ==
    IF fault = "none"
    THEN \E result \in {latest_result(task, get_all_returns(order)) :
                          order \in Orderings(repository)} :
           /\ held' = IF result.ret = <<>> THEN held
                      ELSE [held EXCEPT ![slot] = result.ret]
           /\ given' = IF result.ret = <<>> THEN given
                       ELSE [given EXCEPT ![slot] = <<>>]
           /\ last' = [NoOp EXCEPT !.op = "get_latest_job", !.task = task,
                                   !.ret = result.ret,
                                   !.outcome = result.outcome,
                                   !.calls = <<"load_all">>]
           /\ UNCHANGED <<repository, saved, created, changes>>
    ELSE /\ last' = [NoOp EXCEPT !.op = "get_latest_job", !.task = task,
                                 !.raised = fault, !.outcome = fault,
                                 !.calls = <<"load_all">>]
         /\ UNCHANGED <<repository, held, given, saved, created, changes>>

(* ------------------------- execution engine --------------------------- *)

\* job.status = status, by the execution engine, on the job held in slot:
\* the subscribers run, in registration order, once each.
status_change(slot, status) ==
    /\ changes < MaxChanges
    /\ held[slot] # <<>>
    /\ LET job == held[slot][1] IN
       /\ status \in NextStatus(job.status)
       /\ held' = [held EXCEPT ![slot] = <<[job EXCEPT !.status = status]>>]
       /\ last' = [NoOp EXCEPT !.op = "status", !.id = job.id, !.arg = <<job>>,
                               !.given = given[slot],
                               !.fired = job.subscribers]
    /\ changes' = changes + 1
    /\ UNCHANGED <<repository, given, saved, created>>

(* --------------------------- specifications --------------------------- *)

Next ==
    \/ \E task \in Tasks, callbacks \in CallbackLists, slot \in Sequential,
          fault \in Reliable : create(task, callbacks, slot, fault)
    \/ \E slot \in Sequential, fault \in Reliable : set(slot, fault)
    \/ \E job_id \in JobIds, slot \in Sequential, fault \in Reliable :
          get(job_id, slot, fault)
    \/ \E fault \in Reliable : get_all(fault)
    \/ \E slot \in Sequential, force \in BOOLEAN, fault \in Reliable :
          delete(slot, force, fault)
    \/ \E fault \in Reliable : delete_all(fault)
    \/ \E task \in Tasks, slot \in Sequential, fault \in Reliable :
          get_latest_job(task, slot, fault)
    \/ \E slot \in Sequential, status \in Status : status_change(slot, status)

\* One caller at a time, a repository that does not fail: every operation
\* runs to its end before the next.
Spec == Init /\ [][Next]_vars

\* Two callers race on one job: each may get it, change the status of its
\* copy, set it and delete it, in any interleaving of whole operations (the
\* repository is atomic per call, the manager holds no lock).
NextRace ==
    \/ \E task \in Tasks, callbacks \in CallbackLists, slot \in Sequential,
          fault \in Reliable : created = 0 /\ create(task, callbacks, slot, fault)
    \/ \E slot \in Callers, fault \in Reliable : set(slot, fault)
    \/ \E job_id \in JobIds, slot \in Callers, fault \in Reliable :
          get(job_id, slot, fault)
    \/ \E slot \in Callers, force \in BOOLEAN, fault \in Reliable :
          delete(slot, force, fault)
    \/ \E slot \in Callers, status \in Status : status_change(slot, status)

SpecRace == Init /\ [][NextRace]_vars

\* One caller, one job, and a repository whose calls may fail.
NextFaulty ==
    \/ \E task \in Tasks, callbacks \in CallbackLists, slot \in Sequential,
          fault \in Unreliable : created = 0 /\ create(task, callbacks, slot, fault)
    \/ \E slot \in Sequential, fault \in Unreliable : set(slot, fault)
    \/ \E job_id \in JobIds, slot \in Sequential, fault \in Unreliable :
          get(job_id, slot, fault)
    \/ \E fault \in Unreliable : get_all(fault)
    \/ \E slot \in Sequential, force \in BOOLEAN, fault \in Unreliable :
          delete(slot, force, fault)
    \/ \E fault \in Unreliable : delete_all(fault)
    \/ \E task \in Tasks, slot \in Sequential, fault \in Unreliable :
          get_latest_job(task, slot, fault)
    \/ \E slot \in Sequential, status \in Status : status_change(slot, status)

SpecFaulty == Init /\ [][NextFaulty]_vars

(* ------------------------------ claims -------------------------------- *)

\* The records saved and not removed since.
Persisted == {saved[i][1] : i \in {j \in JobIds : saved[j] # <<>>}}

UniqueIds(repo) == \A m, n \in repo : m.id = n.id => m = n

Models(jobs) == {to_model(jobs[i]) : i \in DOMAIN jobs}

\* C1: delete(job, force=false) of a job that is not finished raises
\* JobNotDeletedException, makes no repository call and leaves the repository
\* as it was; a get of the persisted job right after it succeeds and returns
\* the record unchanged.
DeletionGating ==
    [][/\ (last'.op = "delete" /\ ~last'.force /\ ~is_finished(last'.arg[1]))
            => /\ last'.outcome = "JobNotDeletedException"
               /\ last'.calls = <<>>
               /\ repository' = repository
       /\ (/\ last.op = "delete" /\ last.outcome = "JobNotDeletedException"
           /\ last.had
           /\ last'.op = "get" /\ last'.id = last.id)
            => /\ last'.outcome = "ok"
               /\ to_model(last'.ret[1]) = saved[last.id][1]]_vars

DeletionGatingWitness ==
    /\ last.op = "delete" /\ ~last.force /\ last.had
    /\ ~is_finished(last.arg[1])
    /\ last.outcome = "JobNotDeletedException"
    /\ repository_has(repository, last.id)

\* C2: delete(job, force=true) whatever the status, and delete(job,
\* force=false) of a finished job, remove the persisted record of job without
\* raising; a get of job.id right after it raises NonExistingJob.
DeletionRemoves ==
    [][/\ (/\ last'.op = "delete" /\ last'.had
           /\ (last'.force \/ is_finished(last'.arg[1])))
            => /\ last'.outcome = "ok"
               /\ last'.calls = <<"delete">>
               /\ ~repository_has(repository', last'.id)
       /\ (/\ last.op = "delete" /\ last.outcome = "ok"
           /\ last'.op = "get" /\ last'.id = last.id)
            => last'.outcome = "NonExistingJob"]_vars

DeletionRemovesWitness ==
    /\ last.op = "delete" /\ last.force /\ last.had
    /\ ~is_finished(last.arg[1])
    /\ last.outcome = "ok"
    /\ ~repository_has(repository, last.id)

\* C4: a get(j.id) right after set(j) returns a job equal to j in id, task,
\* status and creation order; so does a get right after the create that
\* returned j.
RoundTrip ==
    [][(/\ last.op \in {"set", "create"}
        /\ last'.op = "get" /\ last'.id = last.id)
         => /\ last'.outcome = "ok"
            /\ to_model(last'.ret[1])
                 = to_model(IF last.op = "set" THEN last.arg[1] ELSE last.ret[1])]_vars

RoundTripWitness ==
    /\ last.op = "set" /\ last.had
    /\ last.arg[1].status = "RUNNING"
    /\ last.arg[1].subscribers # <<>>

\* C5: get(job_id) raises NonExistingJob exactly when no record of job_id
\* was saved and not removed since, and returns that record otherwise; a get
\* leaves the repository unchanged and a failing get returns nothing.
MissingJobError ==
    [][last'.op = "get"
         => /\ repository' = repository
            /\ last'.outcome \in {"ok", "NonExistingJob"}
            /\ last'.outcome = "NonExistingJob" <=> saved[last'.id] = <<>>
            /\ last'.outcome = "ok"
                 => to_model(last'.ret[1]) = saved[last'.id][1]
            /\ last'.outcome = "NonExistingJob"
                 => last'.ret = <<>> /\ held' = held]_vars

MissingJobErrorWitness ==
    /\ last.op = "get" /\ last.outcome = "NonExistingJob"
    /\ last.id <= created
    /\ repository # {}

\* C6: get_latest_job(task) returns the persisted job of task that was
\* created last among those persisted, never a job of another task, in
\* whatever order the repository returns its records.
LatestJobOrdering ==
    (last.op = "get_latest_job" /\ last.outcome = "ok")
      => /\ Len(last.ret) = 1
         /\ to_model(last.ret[1]) \in Persisted
         /\ last.ret[1].task = last.task
         /\ \A m \in Persisted :
               m.task = last.task => m.creation_date <= last.ret[1].creation_date

LatestJobOrderingWitness ==
    /\ last.op = "get_latest_job" /\ last.outcome = "ok"
    /\ \E m \in Persisted :
          m.task = last.task /\ m.creation_date < last.ret[1].creation_date

\* C7: get_all returns exactly the jobs saved and not removed since, one per
\* identity, and an empty sequence, without raising, when there is none.
GetAllExact ==
    last.op = "get_all"
      => /\ last.outcome = "ok"
         /\ Models(last.ret) = Persisted
         /\ Len(last.ret) = Cardinality(Persisted)
         /\ \A i, j \in DOMAIN last.ret :
               last.ret[i].id = last.ret[j].id => i = j

GetAllExactWitness ==
    /\ last.op = "get_all"
    /\ Len(last.ret) = 2
    /\ \E i \in DOMAIN last.ret : is_finished(last.ret[i])

\* C8: delete_all removes every record, finished or not, and raises nothing;
\* right after it get_all returns an empty sequence and every get raises
\* NonExistingJob.
DeleteAllRemovesAll ==
    [][/\ last'.op = "delete_all"
            => /\ repository' = {}
               /\ last'.outcome = "ok"
               /\ last'.log = <<>>
       /\ (last.op = "delete_all" /\ last'.op = "get_all")
            => last'.outcome = "ok" /\ last'.ret = <<>>
       /\ (last.op = "delete_all" /\ last'.op = "get")
            => last'.outcome = "NonExistingJob"]_vars

DeleteAllRemovesAllWitness ==
    /\ last.op = "delete_all" /\ last.had
    /\ repository = {}

\* C9: every status change of a job that create returned for callbacks
\* [c1, c2] runs c1 and then c2, once each, and create itself runs none.
CallbackFiring ==
    /\ last.op = "create" => last.fired = <<>>
    /\ (last.op = "status" /\ last.given # <<>>) => last.fired = last.given[1]

CallbackFiringWitness ==
    /\ last.op = "status"
    /\ last.given = << <<"c1", "c2">> >>
    /\ last.fired = <<"c1", "c2">>

\* C10: set(j) replaces the record of identity j.id, if any, by j and leaves
\* the other records alone; a second set(j) right after it changes nothing;
\* the repository never holds two records of one identity.
SetIdempotentUpsert ==
    [][/\ UniqueIds(repository')
       /\ last'.op = "set"
            => /\ to_model(last'.arg[1]) \in repository'
               /\ \A m \in repository' : m.id = last'.id => m = to_model(last'.arg[1])
               /\ {m \in repository' : m.id # last'.id}
                    = {m \in repository : m.id # last'.id}
       /\ (last.op = "set" /\ last'.op = "set" /\ last'.arg = last.arg)
            => repository' = repository]_vars

SetIdempotentUpsertWitness ==
    /\ last.op = "set" /\ last.had
    /\ Cardinality(repository) = 2
    /\ last.arg[1].status # "SUBMITTED"

\* C11: create makes exactly one repository call, a save, of the job as it is
\* before the callbacks are registered; the job it returns has the callbacks
\* registered, references the task given and is persisted.
CreatePersistsFirst ==
    (last.op = "create" /\ last.outcome = "ok")
      => /\ last.calls = <<"save">>
         /\ last.arg[1].subscribers = <<>>
         /\ last.ret[1].subscribers = last.given[1]
         /\ last.ret[1].task = last.task
         /\ last.ret[1].id = last.id
         /\ to_model(last.ret[1]) \in repository
         /\ saved[last.id] = <<to_model(last.ret[1])>>

CreatePersistsFirstWitness ==
    /\ last.op = "create" /\ last.outcome = "ok"
    /\ last.ret[1].subscribers = <<"c1", "c2">>
    /\ last.ret[1].task = "t2"
    /\ Cardinality(repository) = 2

\* C12: get_latest_job(task) fails, and returns no job, exactly when no
\* persisted job belongs to task; the repository then still holds exactly what
\* was saved and not removed.
LatestJobOfNone ==
    last.op = "get_latest_job"
      => /\ last.outcome = "ValueError" <=> ~\E m \in Persisted : m.task = last.task
         /\ last.outcome = "ValueError"
              => /\ last.ret = <<>>
                 /\ last.calls = <<"load_all">>
                 /\ repository = Persisted

LatestJobOfNoneWitness ==
    /\ last.op = "get_latest_job" /\ last.outcome = "ValueError"
    /\ repository # {}
    /\ created = 2 /\ Cardinality(repository) = 1

\* C13 as stated: once the persisted record of a job is terminal, only delete
\* and delete_all change it.
TerminalRecordImmutable ==
    [][\A m \in repository :
          (is_finished(m) /\ m \notin repository')
            => last'.op \in {"delete", "delete_all"}]_vars

\* C13 as amended: once the persisted record of a job is terminal, only set,
\* delete and delete_all change it; set checks nothing: whatever copy of the
\* job it is handed, of an earlier status or of the same, is the record
\* afterwards.
TerminalRecordChangedBySet ==
    [][\A m \in repository :
          is_finished(m)
            => /\ m \notin repository'
                    => last'.op \in {"set", "delete", "delete_all"}
               /\ (last'.op = "set" /\ last'.id = m.id)
                    => record_of(repository', m.id) = <<to_model(last'.arg[1])>>]_vars

TerminalRecordChangedBySetWitness ==
    /\ last.op = "set" /\ last.outcome = "ok"
    /\ last.was # <<>>
    /\ is_finished(last.was[1])
    /\ ~is_finished(last.arg[1])
    /\ to_model(last.arg[1]) \in repository

\* C14 as stated: a delete with force=false never removes a record whose
\* persisted status is not terminal.
DeleteKeepsUnfinishedRecord ==
    (/\ last.op = "delete" /\ ~last.force /\ last.outcome = "ok"
     /\ last.was # <<>>)
      => is_finished(last.was[1])

\* C14 as amended: a delete with force=false reaches the repository only when
\* the job object passed is finished; the status of the persisted record is
\* not looked at.
DeleteGateReadsObject ==
    (last.op = "delete" /\ ~last.force)
      => /\ last.calls = <<"delete">> <=> is_finished(last.arg[1])
         /\ last.calls = <<>> <=> ~is_finished(last.arg[1])
         /\ (last.calls = <<>> /\ last.was # <<>>) => last.was[1] \in repository

DeleteGateReadsObjectWitness ==
    /\ last.op = "delete" /\ ~last.force /\ last.outcome = "ok"
    /\ is_finished(last.arg[1])
    /\ last.was # <<>> /\ ~is_finished(last.was[1])
    /\ ~repository_has(repository, last.id)

\* C15: the persisted record of a job is the copy handed to the set that ran
\* last, whatever another caller wrote before, and every get returns the
\* record saved last, whole.
LastWriteWins ==
    /\ last.op = "set"
         => record_of(repository, last.id) = <<to_model(last.arg[1])>>
    /\ repository = Persisted
    /\ (last.op = "get" /\ last.outcome = "ok")
         => /\ to_model(last.ret[1]) = saved[last.id][1]
            /\ last.ret[1].id = last.id

\* The update of one caller is lost: its copy is PENDING and was persisted,
\* and the other caller, whose copy left SUBMITTED for BLOCKED, set it last.
LastWriteWinsWitness ==
    /\ last.op = "set"
    /\ last.arg[1].status = "BLOCKED"
    /\ last.was # <<>> /\ last.was[1].status = "PENDING"
    /\ \E c \in Callers :
          held[c] # <<>> /\ to_model(held[c][1]) = last.was[1]

ManagerOps ==
    {"create", "set", "get", "get_all", "delete", "delete_all", "get_latest_job"}

\* C16: no operation of the manager changes a job object a caller holds (a
\* caller's variable keeps its job or receives the job returned), the job
\* create returns is the job it saved but for its subscribers, and a record
\* of the repository changes only by a set, to the job the caller passed;
\* a record appears only by a create or a set.
ManagerNeverMutates ==
    [][last'.op \in ManagerOps
         => /\ \A c \in Callers :
                  \/ held'[c] = held[c]
                  \/ /\ last'.op \in {"create", "get", "get_latest_job"}
                     /\ held'[c] = last'.ret
            /\ (last'.op = "create" /\ last'.outcome = "ok")
                  => to_model(last'.ret[1]) = to_model(last'.arg[1])
            /\ \A n \in repository' :
                  n \notin repository
                    => /\ n = to_model(last'.arg[1])
                       /\ IF repository_has(repository, n.id)
                          THEN /\ last'.op = "set"
                               /\ \E c \in Callers : held[c] = last'.arg
                          ELSE last'.op \in {"create", "set"}]_vars

ManagerNeverMutatesWitness ==
    /\ last.op = "set" /\ last.was # <<>>
    /\ last.was[1].status # last.arg[1].status
    /\ to_model(last.arg[1]) \in repository
    /\ held["a"] = last.arg

\* C17: a get of a missing id emits one error entry and raises
\* NonExistingJob, a rejected delete emits one warning entry and raises
\* JobNotDeletedException, and no other operation emits an entry.
FailureLoggedOnce ==
    /\ last.outcome = "NonExistingJob"
         => last.op = "get" /\ last.log = <<"error">>
    /\ last.outcome = "JobNotDeletedException"
         => last.op = "delete" /\ last.log = <<"warning">>
    /\ last.outcome \notin {"NonExistingJob", "JobNotDeletedException"}
         => last.log = <<>>
    /\ (last.op = "get" /\ ~last.had) => last.outcome = "NonExistingJob"
    /\ (last.op = "delete" /\ ~last.force /\ ~is_finished(last.arg[1]))
         => last.outcome = "JobNotDeletedException"

FailureLoggedOnceWitness ==
    /\ last.op = "get" /\ last.outcome = "NonExistingJob"
    /\ last.log = <<"error">>
    /\ last.id <= created

\* C18: when the repository call of an operation fails, with anything but
\* the not-found of load, the operation fails with that failure after that
\* one call, without a log entry; get turns the not-found of load, and
\* nothing else, into NonExistingJob.
RepositoryFailurePropagates ==
    /\ (last.raised # "none" /\ ~(last.op = "get" /\ last.raised = "ModelNotFound"))
         => /\ last.outcome = last.raised
            /\ Len(last.calls) = 1
            /\ last.ret = <<>>
            /\ last.log = <<>>
    /\ (last.op = "get" /\ last.raised = "ModelNotFound")
         => last.outcome = "NonExistingJob" /\ last.calls = <<"load">>
    /\ last.outcome = "NonExistingJob"
         => last.op = "get" /\ last.raised = "ModelNotFound"

RepositoryFailurePropagatesWitness ==
    /\ last.op = "get" /\ last.had
    /\ last.raised = "StorageError"
    /\ last.outcome = "StorageError"

\* C19: a delete that passes the gate makes one repository call, a delete,
\* which removes the record of job.id and no other; a rejected delete makes
\* no repository call and leaves the repository as it was.
DeleteOnlyThatJob ==
    [][last'.op = "delete"
         => IF last'.force \/ is_finished(last'.arg[1])
            THEN /\ last'.calls = <<"delete">>
                 /\ ~repository_has(repository', last'.id)
                 /\ {m \in repository' : m.id # last'.id}
                      = {m \in repository : m.id # last'.id}
            ELSE /\ last'.calls = <<>>
                 /\ repository' = repository]_vars

DeleteOnlyThatJobWitness ==
    /\ last.op = "delete" /\ last.outcome = "ok" /\ last.had
    /\ \E m \in repository : m.task = last.arg[1].task

====
